---- MODULE Spec2Model ----
(***************************************************************************)
(* Model of the asynchronous job coordinator of the CavemanAnalyzer        *)
(* component: bounded-retry submission, response classification, the       *)
(* 5000 ms poll interval, the 360000 ms deadline timer and the 1000 ms     *)
(* progress tick.  React state is modelled by the committed value of each  *)
(* useState cell; a callback reads the values its closure captured at the  *)
(* render in which it was created.                                         *)
(*                                                                         *)
(* Strings whose content is inspected by the code (video_url, File.type)   *)
(* are sequences of one-character strings, so that trim() and startsWith() *)
(* are computed, not assumed.                                              *)
(***************************************************************************)
EXTENDS Integers, Sequences, FiniteSets, TLC

\* ---------------------------------------------------------------- bounds
MaxJobs == 2            \* submissions started in one run
MaxInFlight == 2        \* probe requests of one poll loop awaiting a response
TimeStep == 360000      \* granularity at which the clock is advanced (ms)
MaxNow == 1000000       \* last clock value explored (ms)
EstStepMs == 500        \* clock granularity when the estimator is exercised (ms)
EstMaxElapsedMs == 250000 \* time spent Processing when the estimator is exercised (ms)
MaxAuthEvents == 4      \* auth-state listener events delivered in one page load

\* ------------------------------------------------------ program constants
MaxAttempts == 3
PollTimeoutMs == 360000
totalEstimatedTime == 240
ProgressCap == 95
MaxFileSize == 10 * 1024 * 1024

Jobs == 1..MaxJobs

\* ------------------------------------------------------------ JS values
NullId == "<null>"                       \* requestId === null / request_id absent
NullTime == -1                           \* processingStartTime === null
None == [some |-> FALSE, v |-> <<>>]     \* string | null | undefined, absent
Some(s) == [some |-> TRUE, v |-> s]

Min(a, b) == IF a < b THEN a ELSE b

IsWhitespace(c) == c \in {" ", "\t", "\n"}

RECURSIVE TrimStart(_)
TrimStart(s) ==
    IF s = <<>> THEN <<>>
    ELSE IF IsWhitespace(Head(s)) THEN TrimStart(Tail(s)) ELSE s

RECURSIVE TrimEnd(_)
TrimEnd(s) ==
    IF s = <<>> THEN <<>>
    ELSE IF IsWhitespace(s[Len(s)]) THEN TrimEnd(SubSeq(s, 1, Len(s) - 1)) ELSE s

\* String.prototype.trim
Trim(s) == TrimEnd(TrimStart(s))

\* String.prototype.startsWith
StartsWith(s, p) == Len(s) >= Len(p) /\ SubSeq(s, 1, Len(p)) = p

\* truthiness of an optional string: absent and "" are falsy
TruthyStr(o) == o.some /\ o.v # <<>>

TruthyId(id) == id \notin {NullId, ""}

\* truthiness of number | null: null and 0 are falsy
TruthyTime(t) == t # NullTime /\ t # 0

\* ------------------------------------------------------------ input sets
UrlHttps == <<"h","t","t","p","s",":","/","/","a">>
UrlHttp == <<"h","t","t","p",":","/","/","b">>
UrlFtp == <<"f","t","p",":","/","/","b","a","d">>
UrlHttpNoScheme == <<"h","t","t","p","_","p","e","n","d","i","n","g">>
UrlLeadingSpace == <<" ","h","t","t","p",":","/","/","b">>
UrlBlank == <<" ">>

Urls == {UrlHttps, UrlHttp, UrlFtp, UrlHttpNoScheme, UrlLeadingSpace, UrlBlank, <<>>}

UrlOpts == {None} \cup {Some(u) : u \in Urls}

Statuses == {"success", "error"}

NoBody == [status |-> "", video_url |-> None, request_id |-> NullId]

\* AnalysisResponse bodies the service may send
Bodies(ids) ==
    [status : {"success"}, video_url : UrlOpts, request_id : ids]
    \cup [status : Statuses \ {"success"}, video_url : {None, Some(UrlHttps)},
          request_id : {NullId}]

\* outcome of one fetch: rejected promise, non-2xx, unparseable 2xx body, 2xx body
FailureKinds == {"neterr", "http_error", "bad_json"}

Failure(k) == [kind |-> k, body |-> NoBody]

Ok(b) == [kind |-> "ok", body |-> b]

Responses(ids) == {Failure(k) : k \in FailureKinds} \cup {Ok(b) : b \in Bodies(ids)}

IdOfJob(j) == IF j = 1 THEN "r1" ELSE IF j = 2 THEN "r2" ELSE "r3"

SubmitIds(j) == {NullId, "", IdOfJob(j)}

\* what the service may answer to the submission of job j, and to a probe
SubmitResponses(j) == Responses(SubmitIds(j))

ProbeResponses == Responses({NullId})

MimePng == <<"i","m","a","g","e","/","p","n","g">>
MimeText == <<"t","e","x","t","/","p","l","a","i","n">>
MimePrefix == <<"i","m","a","g","e","/">>

Files == [type : {MimePng, MimeText}, size : {MaxFileSize, MaxFileSize + 1}]

NoFile == [type |-> <<>>, size |-> -1]

\* FileReader.readAsDataURL: "data:<type>;base64,<content>"; a file's content is
\* identified by its size
DataUrl(file) == <<"data:", file.type, ";base64,", file.size>>

NoPreview == <<>>                        \* imagePreview === null

\* Session | null, as delivered by supabase.auth
NoSession == [user |-> "<null>", token |-> "<null>"]

Sessions == [user : {"u1", "u2"}, token : {"t1", "t2", "t3"}]

SessionOpts == {NoSession} \cup Sessions

NoUser == "<null>"                       \* user === null

\* session?.user ?? null
UserOf(s) == IF s = NoSession THEN NoUser ELSE s.user

\* ----------------------------------------------------------------- state
VARIABLES
    user,                 \* useAuth: useState<User | null>
    session,              \* useAuth: useState<Session | null>
    loading,              \* useAuth: useState(true)
    hasAuthHash,          \* the page was opened from an email link
    getSessionPending,    \* the promise of supabase.auth.getSession() is unresolved
    authEvents,           \* number of onAuthStateChange callbacks run so far
    route,                \* location of the router: "/" (Index) or "/auth"
    selectedImage,        \* useState<File | null>
    imagePreview,         \* useState<string | null>
    isAnalyzing,          \* useState(false)
    videoUrl,             \* useState<string | null>
    isProcessing,         \* useState(false)
    requestId,            \* useState<string | null>
    processingStartTime,  \* useState<number | null>
    progress,             \* useState(0), in units of 1/totalEstimatedTime percent
    now,                  \* Date.now()
    curJob,               \* number of analyzeImage() calls so far
    sub,                  \* per call of analyzeImage: the makeRequest chain
    poll,                 \* per call of startPollingForVideo: its timers and probes,
                          \* and whether a probe of it failed (catch or !response.ok)
    notes,                \* per job: terminal toasts emitted by its callbacks
    lastToast             \* kind of the terminal toast shown last

authVars == <<user, session, loading, hasAuthHash, getSessionPending, authEvents, route>>

vars == <<authVars, selectedImage, imagePreview, isAnalyzing, videoUrl, isProcessing,
          requestId, processingStartTime, progress, now, curJob, sub, poll, notes,
          lastToast>>

coordinator == <<selectedImage, imagePreview, isAnalyzing, videoUrl, isProcessing,
                 requestId, processingStartTime, progress, now, curJob, sub, poll, notes,
                 lastToast>>

tracker == <<isAnalyzing, videoUrl, isProcessing, requestId,
             processingStartTime, progress>>

SubInit == [pc |-> "none", attempt |-> 0, attempts |-> <<>>, delays |-> <<>>,
            fails |-> 0, capRequestId |-> NullId, capIsProcessing |-> FALSE]

PollInit == [interval |-> FALSE, deadline |-> "none", inflight |-> 0,
             start |-> 0, loops |-> 0, probeFailed |-> FALSE]

NotesInit == [success |-> 0, failure |-> 0, timeout |-> 0]

\* useAuth and Index once a session is established: Index renders CavemanAnalyzer
SessionEstablished ==
    /\ session = [user |-> "u1", token |-> "t1"]
    /\ user = UserOf(session)
    /\ loading = FALSE
    /\ hasAuthHash = FALSE
    /\ getSessionPending = FALSE
    /\ authEvents = 0
    /\ route = "/"

Init ==
    /\ SessionEstablished
    /\ selectedImage = NoFile
    /\ imagePreview = NoPreview
    /\ isAnalyzing = FALSE
    /\ videoUrl = None
    /\ isProcessing = FALSE
    /\ requestId = NullId
    /\ processingStartTime = NullTime
    /\ progress = 0
    /\ now = TimeStep
    /\ curJob = 0
    /\ sub = [j \in Jobs |-> SubInit]
    /\ poll = [j \in Jobs |-> PollInit]
    /\ notes = [j \in Jobs |-> NotesInit]
    /\ lastToast = "none"

\* ---------------------------------------------------------- pure helpers
\* handleFileSelect's two checks
FileAccepted(file) ==
    /\ StartsWith(file.type, MimePrefix)
    /\ ~(file.size > MaxFileSize)

\* result.status === "success" && result.video_url && result.video_url.trim()
\*   && result.video_url.startsWith('http')
ResultReady(result) ==
    /\ result.status = "success"
    /\ TruthyStr(result.video_url)
    /\ Trim(result.video_url.v) # <<>>
    /\ StartsWith(result.video_url.v, <<"h","t","t","p">>)

\* a bug AttemptThrows could have: an application-level rejection is thrown too
AttemptThrowsOnRejection(resp) == resp.kind # "ok" \/ resp.body.status # "success"

\* makeRequest's try block throws: fetch rejects, !response.ok, or json() fails
AttemptThrows(resp) == resp.kind # "ok"

\* a bug ShouldRetry could have: one retry too many
ShouldRetryOffByOne(attempt) == attempt <= MaxAttempts

\* if (attempt < 3)
ShouldRetry(attempt) == attempt < MaxAttempts

\* Math.pow(2, attempt) * 1000
BackoffDelay(attempt) == (2 ^ attempt) * 1000

\* Math.floor((Date.now() - processingStartTime) / 1000)
elapsed == (now - processingStartTime) \div 1000

\* the text of the three stage messages and of the placeholder (emoji left out)
MsgPreparing == "Preparing cave magic..."
MsgAnalyzing == "Cave spirits analyzing your essence..."
MsgImage == "Ancient artists crafting your caveman form..."
MsgVideo == "Weaving time magic for your transformation..."

getProcessingMessage ==
    IF ~TruthyTime(processingStartTime) THEN MsgPreparing
    ELSE IF elapsed < 15 THEN MsgAnalyzing
    ELSE IF elapsed < 90 THEN MsgImage
    ELSE MsgVideo

\* a bug getEstimatedTimeRemaining could have: the last breakpoint is exclusive
getEstimatedTimeRemainingLate ==
    IF ~TruthyTime(processingStartTime) THEN "2-4 minutes"
    ELSE IF elapsed < 15 THEN "2-4 minutes remaining"
    ELSE IF elapsed < 90 THEN "1-3 minutes remaining"
    ELSE IF elapsed <= 180 THEN "1-2 minutes remaining"
    ELSE "Almost done..."

getEstimatedTimeRemaining ==
    IF ~TruthyTime(processingStartTime) THEN "2-4 minutes"
    ELSE IF elapsed < 15 THEN "2-4 minutes remaining"
    ELSE IF elapsed < 90 THEN "1-3 minutes remaining"
    ELSE IF elapsed < 180 THEN "1-2 minutes remaining"
    ELSE "Almost done..."

\* a bug getProgress could have: the cap is missing
getProgressUncapped ==
    IF ~TruthyTime(processingStartTime) THEN 0
    ELSE elapsed * 100

\* getProgress, in units of 1/totalEstimatedTime percent
getProgress ==
    IF ~TruthyTime(processingStartTime) THEN 0
    ELSE Min(elapsed * 100, ProgressCap * totalEstimatedTime)

Percent(p) == p * totalEstimatedTime

Toast(j, kind) ==
    /\ notes' = [notes EXCEPT ![j][kind] = @ + 1]
    /\ lastToast' = kind

\* ---------------------------------------------------------------- actions
\* Every action is one run-to-completion step of the event loop: a user event, a
\* timer callback up to its first await, or the settling of a fetch together with
\* the continuation that awaited it (the continuation reads no state in between).

\* the clock advances; no callback runs
Advance ==
    /\ now + TimeStep <= MaxNow
    /\ now' = now + TimeStep
    /\ UNCHANGED <<authVars, selectedImage, imagePreview, tracker, curJob, sub, poll, notes, lastToast>>

\* a bug handleFileSelect could have: a refused file clears the selection
handleFileSelectClears(file) ==
    /\ selectedImage' = IF FileAccepted(file) THEN file ELSE NoFile
    /\ imagePreview' = IF FileAccepted(file) THEN DataUrl(file) ELSE NoPreview
    /\ UNCHANGED <<authVars, tracker, now, curJob, sub, poll, notes, lastToast>>

\* both checks, then setSelectedImage and the preview; the FileReader's load is
\* taken to complete within the step
handleFileSelect(file) ==
    /\ selectedImage' = IF FileAccepted(file) THEN file ELSE selectedImage
    /\ imagePreview' = IF FileAccepted(file) THEN DataUrl(file) ELSE imagePreview
    /\ UNCHANGED <<authVars, tracker, now, curJob, sub, poll, notes, lastToast>>

\* a bug analyzeImage could have: the button is not disabled while analyzing
analyzeImageNoDisable ==
    /\ selectedImage # NoFile
    /\ curJob < MaxJobs
    /\ curJob' = curJob + 1
    /\ isAnalyzing' = TRUE
    /\ sub' = [sub EXCEPT ![curJob + 1] =
                 [pc |-> "fetch", attempt |-> 1, attempts |-> <<1>>, delays |-> <<>>,
                  fails |-> 0, capRequestId |-> requestId,
                  capIsProcessing |-> isProcessing]]
    /\ UNCHANGED <<authVars, selectedImage, imagePreview, videoUrl, isProcessing, requestId,
                   processingStartTime, progress, now, poll, notes, lastToast>>

\* click on the button (disabled = !selectedImage || isAnalyzing): analyzeImage
\* runs up to the fetch of makeRequest(1).  startPollingForVideo of this render
\* has captured requestId and isProcessing.
analyzeImage ==
    /\ selectedImage # NoFile
    /\ ~isAnalyzing
    /\ curJob < MaxJobs
    /\ curJob' = curJob + 1
    /\ isAnalyzing' = TRUE
    /\ sub' = [sub EXCEPT ![curJob + 1] =
                 [pc |-> "fetch", attempt |-> 1, attempts |-> <<1>>, delays |-> <<>>,
                  fails |-> 0, capRequestId |-> requestId,
                  capIsProcessing |-> isProcessing]]
    /\ UNCHANGED <<authVars, selectedImage, imagePreview, videoUrl, isProcessing, requestId, processingStartTime,
                   progress, now, poll, notes, lastToast>>

\* a bug startPollingForVideo could have: the loop is armed a second time
startPollingForVideoTwice(j) ==
    poll' = [poll EXCEPT ![j] = [interval |-> TRUE, deadline |-> "armed",
                                 inflight |-> @.inflight, start |-> now,
                                 loops |-> @.loops + 2,
                                 probeFailed |-> @.probeFailed]]

\* setInterval + setTimeout of startPollingForVideo, as called by analyzeImage
startPollingForVideo(j) ==
    poll' = [poll EXCEPT ![j] = [interval |-> TRUE, deadline |-> "armed",
                                 inflight |-> @.inflight, start |-> now,
                                 loops |-> @.loops + 1,
                                 probeFailed |-> @.probeFailed]]

\* a bug makeRequestCatch could have: the final failure skips analyzeImage's finally
makeRequestCatchNoFinally(j) ==
    IF ShouldRetry(sub[j].attempt)
    THEN /\ sub' = [sub EXCEPT ![j].pc = "backoff",
                               ![j].fails = @ + 1,
                               ![j].delays = Append(@, BackoffDelay(sub[j].attempt))]
         /\ UNCHANGED <<tracker, poll, notes, lastToast>>
    ELSE /\ sub' = [sub EXCEPT ![j].pc = "done", ![j].fails = @ + 1]
         /\ Toast(j, "failure")
         /\ UNCHANGED <<tracker, poll>>

\* a bug makeRequestCatch could have: every failed attempt is reported as Failed
makeRequestCatchNotifies(j) ==
    IF ShouldRetry(sub[j].attempt)
    THEN /\ sub' = [sub EXCEPT ![j].pc = "backoff",
                               ![j].fails = @ + 1,
                               ![j].delays = Append(@, BackoffDelay(sub[j].attempt))]
         /\ Toast(j, "failure")
         /\ UNCHANGED <<tracker, poll>>
    ELSE /\ sub' = [sub EXCEPT ![j].pc = "done", ![j].fails = @ + 1]
         /\ Toast(j, "failure")
         /\ isAnalyzing' = FALSE
         /\ UNCHANGED <<videoUrl, isProcessing, requestId, processingStartTime,
                        progress, poll>>

\* makeRequest's catch block and, on the last attempt, analyzeImage's catch/finally
makeRequestCatch(j) ==
    IF ShouldRetry(sub[j].attempt)
    THEN /\ sub' = [sub EXCEPT ![j].pc = "backoff",
                               ![j].fails = @ + 1,
                               ![j].delays = Append(@, BackoffDelay(sub[j].attempt))]
         /\ UNCHANGED <<tracker, poll, notes, lastToast>>
    ELSE /\ sub' = [sub EXCEPT ![j].pc = "done", ![j].fails = @ + 1]
         /\ Toast(j, "failure")
         /\ isAnalyzing' = FALSE
         /\ UNCHANGED <<videoUrl, isProcessing, requestId, processingStartTime,
                        progress, poll>>

\* makeRequest returned result: the three branches of analyzeImage, then finally
analyzeImageResult(j, result) ==
    /\ sub' = [sub EXCEPT ![j].pc = "done"]
    /\ isAnalyzing' = FALSE
    /\ IF ResultReady(result)
       THEN /\ videoUrl' = result.video_url
            /\ isProcessing' = FALSE
            /\ progress' = Percent(100)
            /\ Toast(j, "success")
            /\ UNCHANGED <<requestId, processingStartTime, poll>>
       ELSE IF result.status = "success"
       THEN /\ isProcessing' = TRUE
            /\ processingStartTime' = now
            /\ requestId' = IF TruthyId(result.request_id) THEN result.request_id
                            ELSE requestId
            /\ startPollingForVideo(j)
            /\ UNCHANGED <<videoUrl, progress, notes, lastToast>>
       ELSE /\ Toast(j, "failure")
            /\ UNCHANGED <<videoUrl, isProcessing, requestId, processingStartTime,
                           progress, poll>>

\* the fetch of submission attempt sub[j].attempt settles with resp
SubmitSettles(j, resp) ==
    /\ sub[j].pc = "fetch"
    /\ IF AttemptThrows(resp) THEN makeRequestCatch(j)
                              ELSE analyzeImageResult(j, resp.body)
    /\ UNCHANGED <<authVars, selectedImage, imagePreview, now, curJob>>

\* a bug BackoffElapsed could have: the retry is sent with the same attempt number
BackoffElapsedSameAttempt(j) ==
    /\ sub[j].pc = "backoff"
    /\ Len(sub[j].attempts) < MaxAttempts + 1
    /\ sub' = [sub EXCEPT ![j].pc = "fetch",
                          ![j].attempts = Append(@, sub[j].attempt)]
    /\ UNCHANGED <<authVars, selectedImage, imagePreview, tracker, now, curJob, poll, notes, lastToast>>

\* the backoff setTimeout resolves: makeRequest(attempt + 1) runs up to its fetch
BackoffElapsed(j) ==
    /\ sub[j].pc = "backoff"
    /\ sub' = [sub EXCEPT ![j].pc = "fetch",
                          ![j].attempt = @ + 1,
                          ![j].attempts = Append(@, sub[j].attempt + 1)]
    /\ UNCHANGED <<authVars, selectedImage, imagePreview, tracker, now, curJob, poll, notes, lastToast>>

\* the payload of a probe of job j's loop: request_id is the requestId of the
\* render whose analyzeImage called startPollingForVideo
ProbePayload(j) == [check_status |-> TRUE, request_id |-> sub[j].capRequestId]

\* the setInterval callback of job j's loop runs up to its fetch
PollTick(j) ==
    /\ poll[j].interval
    /\ poll[j].inflight < MaxInFlight
    /\ poll' = [poll EXCEPT ![j].inflight = @ + 1]
    /\ UNCHANGED <<authVars, selectedImage, imagePreview, tracker, now, curJob, sub, notes, lastToast>>

\* a bug ProbeSettles could have: a failed probe ends the loop
ProbeSettlesStopsOnError(j, resp) ==
    /\ poll[j].inflight > 0
    /\ IF resp.kind = "ok" /\ ResultReady(resp.body)
       THEN /\ videoUrl' = resp.body.video_url
            /\ isProcessing' = FALSE
            /\ progress' = Percent(100)
            /\ poll' = [poll EXCEPT ![j].inflight = @ - 1, ![j].interval = FALSE]
            /\ Toast(j, "success")
            /\ UNCHANGED <<isAnalyzing, requestId, processingStartTime>>
       ELSE /\ poll' = [poll EXCEPT ![j].inflight = @ - 1,
                                   ![j].probeFailed = @ \/ resp.kind # "ok",
                                   ![j].interval = @ /\ resp.kind = "ok"]
            /\ UNCHANGED <<tracker, notes, lastToast>>
    /\ UNCHANGED <<authVars, selectedImage, imagePreview, now, curJob, sub>>

\* the fetch of one probe of job j settles with resp: rest of the callback
ProbeSettles(j, resp) ==
    /\ poll[j].inflight > 0
    /\ IF resp.kind = "ok" /\ ResultReady(resp.body)
       THEN /\ videoUrl' = resp.body.video_url
            /\ isProcessing' = FALSE
            /\ progress' = Percent(100)
            /\ poll' = [poll EXCEPT ![j].inflight = @ - 1, ![j].interval = FALSE]
            /\ Toast(j, "success")
            /\ UNCHANGED <<isAnalyzing, requestId, processingStartTime>>
       ELSE /\ poll' = [poll EXCEPT ![j].inflight = @ - 1,
                                   ![j].probeFailed = @ \/ resp.kind # "ok"]
            /\ UNCHANGED <<tracker, notes, lastToast>>
    /\ UNCHANGED <<authVars, selectedImage, imagePreview, now, curJob, sub>>

\* the 360000 ms setTimeout of job j's loop is due
DeadlineDue(j) == now + TimeStep > poll[j].start + PollTimeoutMs

\* a bug DeadlineFires could have: the interval is cleared only when it times out
DeadlineFiresKeepsInterval(j) ==
    /\ poll[j].deadline = "armed"
    /\ DeadlineDue(j)
    /\ IF sub[j].capIsProcessing
       THEN /\ poll' = [poll EXCEPT ![j].deadline = "fired", ![j].interval = FALSE]
            /\ isProcessing' = FALSE
            /\ Toast(j, "timeout")
       ELSE /\ poll' = [poll EXCEPT ![j].deadline = "fired"]
            /\ UNCHANGED <<isProcessing, notes, lastToast>>
    /\ UNCHANGED <<authVars, selectedImage, imagePreview, isAnalyzing, videoUrl, requestId, processingStartTime,
                   progress, now, curJob, sub>>

DeadlineFires(j) ==
    /\ poll[j].deadline = "armed"
    /\ DeadlineDue(j)
    /\ poll' = [poll EXCEPT ![j].deadline = "fired", ![j].interval = FALSE]
    /\ IF sub[j].capIsProcessing
       THEN /\ isProcessing' = FALSE
            /\ Toast(j, "timeout")
       ELSE UNCHANGED <<isProcessing, notes, lastToast>>
    /\ UNCHANGED <<authVars, selectedImage, imagePreview, isAnalyzing, videoUrl, requestId, processingStartTime,
                   progress, now, curJob, sub>>

\* the progress effect holds an interval: if (!isProcessing || !processingStartTime) return
ProgressTimerArmed == isProcessing /\ TruthyTime(processingStartTime)

\* the 1000 ms interval of the progress effect
ProgressTick ==
    /\ ProgressTimerArmed
    /\ progress' = getProgress
    /\ UNCHANGED <<authVars, selectedImage, imagePreview, isAnalyzing, videoUrl, isProcessing, requestId,
                   processingStartTime, now, curJob, sub, poll, notes, lastToast>>

Next ==
    \/ Advance
    \/ \E file \in Files : handleFileSelect(file)
    \/ analyzeImage
    \/ \E j \in Jobs : \E resp \in SubmitResponses(j) : SubmitSettles(j, resp)
    \/ \E j \in Jobs : BackoffElapsed(j)
    \/ \E j \in Jobs : PollTick(j)
    \/ \E j \in Jobs : \E resp \in ProbeResponses : ProbeSettles(j, resp)
    \/ \E j \in Jobs : DeadlineFires(j)
    \/ ProgressTick

Spec == Init /\ [][Next]_vars

\* Every network call eventually resolves or fails, and a backoff timer that was
\* set eventually expires.
NetworkSettles ==
    \A j \in Jobs :
        /\ WF_vars(\E resp \in SubmitResponses(j) : SubmitSettles(j, resp))
        /\ WF_vars(BackoffElapsed(j))

\* The steps that run while submissions are made and answered.  The clock, the
\* deadline timer and the progress tick are left out: they neither read nor
\* write the attempt chain or the Submitting flag.
SubmissionNext ==
    \/ \E file \in Files : handleFileSelect(file)
    \/ analyzeImage
    \/ \E j \in Jobs : \E resp \in SubmitResponses(j) : SubmitSettles(j, resp)
    \/ \E j \in Jobs : BackoffElapsed(j)
    \/ \E j \in Jobs : PollTick(j)
    \/ \E j \in Jobs : \E resp \in ProbeResponses : ProbeSettles(j, resp)

FairSpec == Init /\ [][SubmissionNext]_vars /\ NetworkSettles

\* ------------------------------------------- the estimator, second by second
\* The state in which one job, submitted at Init, has just been accepted; from
\* there only the clock and the 1000 ms progress tick run, at a granularity that
\* passes every breakpoint of the estimator.
JobAccepted ==
    /\ SessionEstablished
    /\ selectedImage = [type |-> MimePng, size |-> MaxFileSize]
    /\ imagePreview = DataUrl(selectedImage)
    /\ isAnalyzing = FALSE
    /\ videoUrl = None
    /\ isProcessing = TRUE
    /\ requestId = IdOfJob(1)
    /\ processingStartTime = TimeStep
    /\ progress = 0
    /\ now = TimeStep
    /\ curJob = 1
    /\ sub = [j \in Jobs |-> IF j = 1 THEN [SubInit EXCEPT !.pc = "done", !.attempt = 1,
                                                            !.attempts = <<1>>]
                                       ELSE SubInit]
    /\ poll = [j \in Jobs |-> IF j = 1 THEN [PollInit EXCEPT !.interval = TRUE,
                                                             !.deadline = "armed",
                                                             !.start = TimeStep,
                                                             !.loops = 1]
                                        ELSE PollInit]
    /\ notes = [j \in Jobs |-> NotesInit]
    /\ lastToast = "none"

\* the clock advances while the job is Processing; no callback runs
ClockTick ==
    /\ now + EstStepMs <= processingStartTime + EstMaxElapsedMs
    /\ now' = now + EstStepMs
    /\ UNCHANGED <<authVars, selectedImage, imagePreview, tracker, curJob, sub, poll, notes, lastToast>>

EstimatorNext ==
    \/ ClockTick
    \/ ProgressTick

EstimatorSpec == JobAccepted /\ [][EstimatorNext]_vars

\* ------------------------------------------------ the session gate of Index
\* isAuthenticated: !!user
isAuthenticated == user # NoUser

\* a bug Index could have: the analyzer is shown as soon as loading is over
IndexRendersUnchecked ==
    IF loading THEN "Loader"
    ELSE "CavemanAnalyzer"

\* what Index returns
IndexRenders ==
    IF loading THEN "Loader"
    ELSE IF ~isAuthenticated THEN "null"
    ELSE "CavemanAnalyzer"

\* Index's effect, run after the render that follows the state change of a step
IndexEffect ==
    route' = IF ~loading' /\ user' = NoUser THEN "/auth" ELSE route

\* the page is loaded: useAuth's effect has subscribed and called getSession()
PageLoad ==
    /\ user = NoUser
    /\ session = NoSession
    /\ loading = TRUE
    /\ hasAuthHash \in BOOLEAN
    /\ getSessionPending = TRUE
    /\ authEvents = 0
    /\ route = "/"
    /\ selectedImage = NoFile
    /\ imagePreview = NoPreview
    /\ isAnalyzing = FALSE
    /\ videoUrl = None
    /\ isProcessing = FALSE
    /\ requestId = NullId
    /\ processingStartTime = NullTime
    /\ progress = 0
    /\ now = TimeStep
    /\ curJob = 0
    /\ sub = [j \in Jobs |-> SubInit]
    /\ poll = [j \in Jobs |-> PollInit]
    /\ notes = [j \in Jobs |-> NotesInit]
    /\ lastToast = "none"

\* the listener passed to supabase.auth.onAuthStateChange runs with session s;
\* after navigate('/auth') Index is unmounted and the subscription is cancelled
onAuthStateChange(s) ==
    /\ route = "/"
    /\ authEvents < MaxAuthEvents
    /\ session' = s
    /\ user' = UserOf(s)
    /\ loading' = FALSE
    /\ authEvents' = authEvents + 1
    /\ IndexEffect
    /\ UNCHANGED <<hasAuthHash, getSessionPending, coordinator>>

\* the then-callback of supabase.auth.getSession() runs with session s
getSessionThen(s) ==
    /\ route = "/"
    /\ getSessionPending
    /\ getSessionPending' = FALSE
    /\ session' = s
    /\ user' = UserOf(s)
    /\ loading' = IF s # NoSession THEN FALSE
                  ELSE IF ~hasAuthHash THEN FALSE
                  ELSE loading
    /\ IndexEffect
    /\ UNCHANGED <<hasAuthHash, authEvents, coordinator>>

AuthNext ==
    \/ \E s \in SessionOpts : onAuthStateChange(s)
    \/ \E s \in SessionOpts : getSessionThen(s)

AuthSpec == PageLoad /\ [][AuthNext]_vars

\* ------------------------------------------------- vocabulary of the claims
\* terminal toasts emitted by the callbacks of job j
Total(j) == notes[j].success + notes[j].failure + notes[j].timeout

\* the job state the UI shows
TrackerState ==
    IF isAnalyzing THEN "Submitting"
    ELSE IF isProcessing THEN "Processing"
    ELSE IF lastToast = "success" THEN "Succeeded"
    ELSE IF lastToast = "failure" THEN "Failed"
    ELSE IF lastToast = "timeout" THEN "TimedOut"
    ELSE "Idle"

Terminal == TrackerState \in {"Succeeded", "Failed", "TimedOut"}

\* the validity rule for a result URL: trimmed, non-empty, http:// or https://
ValidUrl(o) ==
    /\ o.some
    /\ LET t == Trim(o.v) IN
         /\ t # <<>>
         /\ \/ StartsWith(t, <<"h","t","t","p",":","/","/">>)
            \/ StartsWith(t, <<"h","t","t","p","s",":","/","/">>)

SuccessStatus(resp) == resp.kind = "ok" /\ resp.body.status = "success"

Rejected(resp) == resp.kind = "ok" /\ resp.body.status # "success"

\* job j is the tracked job and has left Submitting/Processing: its submission
\* is over, its poll interval is not armed and the UI shows neither flag
JobLeft(j) ==
    /\ j = curJob
    /\ sub[j].pc = "done"
    /\ ~poll[j].interval
    /\ TrackerState \notin {"Submitting", "Processing"}

\* the step emits a success toast for job j
NotifiesSuccess(j) == notes'[j].success = notes[j].success + 1

\* ------------------------------------------------------------------ claims
\* C1: for every submitted job the number of terminal notifications (success,
\* failure, timeout) never exceeds one, and is exactly one once the job has
\* left Submitting/Processing.
C1_AtMostOneTerminalNotification ==
    \A j \in Jobs :
        /\ Total(j) <= 1
        /\ JobLeft(j) => Total(j) = 1

\* C2: once the tracked job is in a terminal state, no timer callback or network
\* response changes the job state, the result URL or the percentage, and no
\* further notification is emitted, until a new submission is started.
C2_TerminalSticky ==
    [][(Terminal /\ curJob' = curJob)
         => UNCHANGED <<isAnalyzing, isProcessing, videoUrl, progress, notes, lastToast>>]_vars

\* C3: after a job has been superseded by a new submission, a probe response or
\* deadline firing of the old job never changes the tracker state (result URL,
\* Processing flag, percentage) and never fires a terminal notification.
C3_StaleCallbacksDiscarded ==
    [][\A j \in Jobs :
         (j < curJob /\ (DeadlineFires(j) \/ \E resp \in ProbeResponses : ProbeSettles(j, resp)))
           => UNCHANGED <<videoUrl, isProcessing, progress, notes, lastToast>>]_vars

\* C4: if a job is Processing and no probe has reported a ready result, then when
\* the 360000 ms deadline fires the job leaves Processing for TimedOut and the
\* timeout advisory is delivered exactly once.
C4_DeadlineTimesOut ==
    [][\A j \in Jobs :
         (DeadlineFires(j) /\ j = curJob /\ TrackerState = "Processing"
            /\ notes[j].success = 0)
           => (TrackerState' = "TimedOut" /\ notes'[j].timeout = 1)]_vars

C6_RejectedNeverRetried ==
    [][\A j \in Jobs :
         /\ (sub[j].pc = "fetch" /\ sub'[j].pc # "fetch")
              => \A resp \in SubmitResponses(j) :
                   (Rejected(resp) /\ SubmitSettles(j, resp))
                     => /\ sub'[j] = [sub[j] EXCEPT !.pc = "done"]
                        /\ notes'[j] = [notes[j] EXCEPT !.failure = @ + 1]
                        /\ lastToast' = "failure"
                        /\ ~isAnalyzing'
         /\ sub[j].pc = "done" => sub'[j] = sub[j]]_vars

C6_Witness ==
    \E j \in Jobs :
        /\ sub[j].pc = "done" /\ sub[j].fails = 1 /\ sub[j].attempts = <<1, 2>>
        /\ notes[j].failure = 1 /\ lastToast = "failure" /\ ~isAnalyzing

\* C7: within one poll loop at most one probe is in flight at any time.
C7_ProbesSequential == \A j \in Jobs : poll[j].inflight <= 1

\* C8: for every response with status "success", in submission and in polling,
\* the response is classified as Completed/ready if and only if its video_url,
\* trimmed, is non-empty and begins with "http://" or "https://".
C8_ReadyIffValidUrl ==
    [][\A j \in Jobs :
         /\ (sub[j].pc = "fetch" /\ sub'[j].pc # "fetch")
              => \A resp \in SubmitResponses(j) :
                   (SuccessStatus(resp) /\ SubmitSettles(j, resp))
                     => (NotifiesSuccess(j) <=> ValidUrl(resp.body.video_url))
         /\ (poll'[j].inflight < poll[j].inflight)
              => \A resp \in ProbeResponses :
                   (SuccessStatus(resp) /\ ProbeSettles(j, resp))
                     => (NotifiesSuccess(j) <=> ValidUrl(resp.body.video_url))]_vars

\* the step is the settling of job j's submission, made from Idle, with resp
SubmitFromIdleSettles(j, resp) ==
    /\ sub[j].pc = "fetch" /\ sub'[j].pc # "fetch"
    /\ ~isProcessing
    /\ SuccessStatus(resp)
    /\ SubmitSettles(j, resp)

\* Idle -> Submitting -> Succeeded, with no timer of job j armed
GoesToSucceeded(j, resp) ==
    /\ TrackerState' = "Succeeded"
    /\ videoUrl' = resp.body.video_url
    /\ poll'[j] = PollInit
    /\ ~ProgressTimerArmed'

\* Idle -> Submitting -> Processing, with one interval and one deadline timer
GoesToProcessing(j) ==
    /\ TrackerState' = "Processing"
    /\ poll'[j].loops = 1
    /\ poll'[j].interval /\ poll'[j].deadline = "armed"
    /\ notes' = notes

\* C9: a submission made from Idle whose response has status "success" and a
\* valid result URL goes from Submitting to Succeeded without being in
\* Processing: no poll loop, deadline timer or progress tick is started for it.
C9_CompletedSkipsProcessing ==
    [][\A j \in Jobs : \A resp \in SubmitResponses(j) :
         (SubmitFromIdleSettles(j, resp) /\ ValidUrl(resp.body.video_url))
           => GoesToSucceeded(j, resp)]_vars

\* What the code does for C9's case: the same, for the responses the code itself
\* classifies as ready (ResultReady) in place of the valid ones.
CompletedSkipsProcessing_AsClassified ==
    [][\A j \in Jobs : \A resp \in SubmitResponses(j) :
         (SubmitFromIdleSettles(j, resp) /\ ResultReady(resp.body))
           => GoesToSucceeded(j, resp)]_vars

\* C10: a submission made from Idle whose response has status "success" and no
\* valid result URL goes from Submitting to Processing and starts exactly one
\* poll loop (one interval timer and one deadline timer) for that job.
C10_AcceptedStartsOneLoop ==
    [][\A j \in Jobs : \A resp \in SubmitResponses(j) :
         (SubmitFromIdleSettles(j, resp) /\ ~ValidUrl(resp.body.video_url))
           => GoesToProcessing(j)]_vars

\* What the code does for C10's case: the same, for the responses the code itself
\* classifies as not ready.
AcceptedStartsOneLoop_AsClassified ==
    [][\A j \in Jobs : \A resp \in SubmitResponses(j) :
         (SubmitFromIdleSettles(j, resp) /\ ~ResultReady(resp.body))
           => GoesToProcessing(j)]_vars

\* the step is the settling of a probe of the tracked, Processing job j with resp
ProbeOfProcessingSettles(j, resp) ==
    /\ poll'[j].inflight < poll[j].inflight
    /\ j = curJob
    /\ TrackerState = "Processing"
    /\ SuccessStatus(resp)
    /\ ProbeSettles(j, resp)

\* the job stays Processing: nothing shown changes and the interval stays armed
StaysProcessing(j) ==
    /\ UNCHANGED <<videoUrl, isProcessing, progress, notes, lastToast>>
    /\ poll'[j].interval = poll[j].interval

\* C11: a probe response with status "success" but an invalid result URL leaves
\* the job in Processing: the result URL stays unset, the percentage is not set
\* to 100, the poll loop keeps running and no terminal notification is emitted.
C11_InvalidUrlKeepsProcessing ==
    [][\A j \in Jobs :
         (poll'[j].inflight < poll[j].inflight)
           => \A resp \in ProbeResponses :
                (ProbeOfProcessingSettles(j, resp) /\ ~ValidUrl(resp.body.video_url))
                  => StaysProcessing(j)]_vars

\* What the code does for C11's case: the same, for the responses the code itself
\* classifies as not ready.
InvalidUrlKeepsProcessing_AsClassified ==
    [][\A j \in Jobs :
         (poll'[j].inflight < poll[j].inflight)
           => \A resp \in ProbeResponses :
                (ProbeOfProcessingSettles(j, resp) /\ ~ResultReady(resp.body))
                  => StaysProcessing(j)]_vars

\* a timer of job j's poll loop is armed
LoopTimerArmed(j) == poll[j].interval \/ poll[j].deadline = "armed"

\* C12: when a new submission is started while an earlier job is Processing, the
\* earlier job's poll interval and deadline timer are stopped before the new
\* submission proceeds: no timer of a superseded job is armed.
C12_SupersededTimersStopped ==
    \A j \in Jobs : j < curJob => ~LoopTimerArmed(j)

\* C13: in every state where the tracked job has had a poll loop and is no longer
\* Processing, none of its timers (poll interval, deadline timer, progress tick)
\* is armed.
C13_TimersStoppedOnExit ==
    \A j \in Jobs :
        (j = curJob /\ poll[j].loops > 0 /\ TrackerState # "Processing")
          => (~LoopTimerArmed(j) /\ ~ProgressTimerArmed)

\* C14: a job handle (the stored request_id) is present only if the job state is
\* Processing.
C14_HandleOnlyWhileProcessing ==
    TruthyId(requestId) => TrackerState = "Processing"

\* C15: after any sequence of submissions, probe responses and timer firings, at
\* most one poll loop has been started, hence at most one is active, for a given
\* job (each call of analyzeImage is one generation).
C15_OneLoopPerJob ==
    \A j \in Jobs :
        /\ poll[j].loops <= 1
        /\ LoopTimerArmed(j) => poll[j].loops = 1

\* both jobs have a live loop, and the older one has had probes and its deadline
C15_Witness ==
    /\ curJob = 2
    /\ poll[1].loops = 1 /\ poll[1].deadline = "fired" /\ poll[1].inflight > 0
    /\ poll[2].loops = 1 /\ poll[2].interval

\* C16: while a job is Processing the displayed percentage never decreases from
\* one step to the next, and it is never 100 while a job is Processing, also for
\* a job submitted after an earlier job succeeded.
C16_ProgressMonotone ==
    [][/\ (TrackerState = "Processing" /\ TrackerState' = "Processing")
            => progress' >= progress
       /\ TrackerState' = "Processing" => progress' # Percent(100)]_vars

\* C19: for one job, the deadline and a ready probe result never both produce a
\* terminal notification: never both a timeout advisory and a success.
C19_DeadlineXorSuccess ==
    \A j \in Jobs : ~(notes[j].timeout > 0 /\ notes[j].success > 0)

\* C20: after the deadline timer of a poll loop has fired, no further probe is
\* initiated by that loop, whatever the outcome of earlier probes.
C20_NoProbeAfterDeadline ==
    [][\A j \in Jobs :
         poll[j].deadline = "fired"
           => (~poll'[j].interval /\ poll'[j].inflight <= poll[j].inflight)]_vars

\* the deadline has fired while probes issued before it are still pending
C20_Witness ==
    \E j \in Jobs : poll[j].deadline = "fired" /\ poll[j].inflight = MaxInFlight

\* the stage a message stands for
Stage ==
    IF getProcessingMessage = MsgAnalyzing THEN "analyzing"
    ELSE IF getProcessingMessage = MsgImage THEN "generating image"
    ELSE IF getProcessingMessage = MsgVideo THEN "generating video"
    ELSE "none"

\* C17: for every elapsed time e in whole seconds the estimator returns stage
\* "analyzing" with ETA "2-4 minutes remaining" for 0 <= e < 15, "generating
\* image" with "1-3 minutes remaining" for 15 <= e < 90, "generating video" with
\* "1-2 minutes remaining" for 90 <= e < 180, and "generating video" with
\* "Almost done..." for e >= 180.
C17_StageAndEta ==
    TruthyTime(processingStartTime) =>
        /\ (0 <= elapsed /\ elapsed < 15)
             => (Stage = "analyzing" /\ getEstimatedTimeRemaining = "2-4 minutes remaining")
        /\ (15 <= elapsed /\ elapsed < 90)
             => (Stage = "generating image"
                 /\ getEstimatedTimeRemaining = "1-3 minutes remaining")
        /\ (90 <= elapsed /\ elapsed < 180)
             => (Stage = "generating video"
                 /\ getEstimatedTimeRemaining = "1-2 minutes remaining")
        /\ elapsed >= 180
             => (Stage = "generating video" /\ getEstimatedTimeRemaining = "Almost done...")

\* the last breakpoint, exactly
C17_Witness ==
    /\ TruthyTime(processingStartTime)
    /\ elapsed = 180
    /\ Stage = "generating video" /\ getEstimatedTimeRemaining = "Almost done..."

\* C18: the estimator's percentage is non-decreasing in elapsed over [0, 240), is
\* below 6.25 for every elapsed < 15, never exceeds 95 for elapsed >= 0, and is
\* never 100.
C18_PercentageBounds ==
    /\ [](TruthyTime(processingStartTime) =>
            /\ elapsed >= 0 => (getProgress <= Percent(95) /\ getProgress # Percent(100))
            /\ (0 <= elapsed /\ elapsed < 15) => 4 * getProgress < Percent(25))
    /\ [][(TruthyTime(processingStartTime) /\ processingStartTime' = processingStartTime
             /\ 0 <= elapsed /\ elapsed <= elapsed' /\ elapsed' < 240)
            => getProgress <= getProgress']_vars

\* the cap is reached and the progress tick has displayed it
C18_Witness ==
    /\ TruthyTime(processingStartTime)
    /\ elapsed >= 240
    /\ getProgress = Percent(95) /\ progress = getProgress

\* C21: when a probe reports status "success" with a valid URL while the job is
\* Processing, the job becomes Succeeded with that URL, the percentage is set to
\* 100, the poll interval is stopped and a success notification is emitted.
C21_ReadyProbeSucceeds ==
    [][\A j \in Jobs :
         (poll'[j].inflight < poll[j].inflight)
           => \A resp \in ProbeResponses :
                (ProbeOfProcessingSettles(j, resp) /\ ValidUrl(resp.body.video_url))
                  => /\ TrackerState' = "Succeeded"
                     /\ videoUrl' = resp.body.video_url
                     /\ progress' = Percent(100)
                     /\ ~poll'[j].interval
                     /\ NotifiesSuccess(j)]_vars

\* What the code does for C21's case: the same, for the responses the code itself
\* classifies as ready.
ReadyProbeSucceeds_AsClassified ==
    [][\A j \in Jobs :
         (poll'[j].inflight < poll[j].inflight)
           => \A resp \in ProbeResponses :
                (ProbeOfProcessingSettles(j, resp) /\ ResultReady(resp.body))
                  => /\ TrackerState' = "Succeeded"
                     /\ videoUrl' = resp.body.video_url
                     /\ progress' = Percent(100)
                     /\ ~poll'[j].interval
                     /\ NotifiesSuccess(j)]_vars

\* a probe failed at the transport level: fetch rejected, or a non-2xx response
TransportFailure(resp) == resp.kind \in {"neterr", "http_error"}

\* C22: a probe that fails at the transport level changes nothing in the tracker
\* state, emits no notification and does not stop the loop: the interval and the
\* deadline timer stay as they were, so the next tick still initiates a probe.
C22_ProbeFailureIgnored ==
    [][\A j \in Jobs :
         (poll'[j].inflight < poll[j].inflight)
           => \A resp \in ProbeResponses :
                (TransportFailure(resp) /\ ProbeSettles(j, resp))
                  => /\ UNCHANGED <<tracker, notes, lastToast>>
                     /\ poll'[j] = [poll[j] EXCEPT !.inflight = @ - 1,
                                                   !.probeFailed = TRUE]
                     /\ poll[j].interval
                          => (poll'[j].interval /\ poll'[j].inflight < MaxInFlight)]_vars

\* a probe of the loop has failed, the loop is still armed and has issued the
\* next probe
C22_Witness ==
    \E j \in Jobs :
        /\ poll[j].probeFailed /\ poll[j].interval /\ poll[j].deadline = "armed"
        /\ poll[j].inflight = 1 /\ isProcessing /\ Total(j) = 0

\* C23: if attempt k of a submission is the first to get a 2xx response, after
\* k-1 transport failures, the job outcome is the classification of that
\* response, no further attempt is made, and no Failed notification is emitted
\* on account of the earlier transport failures.
C23_LateResponseDecides ==
    [][\A j \in Jobs :
         /\ sub[j].pc \in {"fetch", "backoff"} => notes[j] = NotesInit
         /\ (sub[j].pc = "fetch" /\ sub'[j].pc # "fetch")
              => \A resp \in SubmitResponses(j) :
                   (resp.kind = "ok" /\ SubmitSettles(j, resp))
                     => /\ sub[j].fails = sub[j].attempt - 1
                        /\ sub'[j] = [sub[j] EXCEPT !.pc = "done"]
                        /\ ~isAnalyzing'
                        /\ IF ResultReady(resp.body)
                           THEN /\ notes'[j] = [NotesInit EXCEPT !.success = 1]
                                /\ ~isProcessing' /\ videoUrl' = resp.body.video_url
                           ELSE IF resp.body.status = "success"
                           THEN notes'[j] = NotesInit /\ isProcessing' /\ poll'[j].interval
                           ELSE /\ notes'[j] = [NotesInit EXCEPT !.failure = 1]
                                /\ isProcessing' = isProcessing]_vars

\* the third attempt was the first to be answered, and the job was accepted
C23_Witness ==
    \E j \in Jobs :
        /\ sub[j].pc = "done" /\ sub[j].fails = 2 /\ sub[j].attempts = <<1, 2, 3>>
        /\ notes[j] = NotesInit /\ isProcessing /\ poll[j].interval

\* C24: within one submission the attempt counter sent in the payload is 1 on the
\* first attempt and increases by exactly 1 on each retry: the requests carry
\* attempts 1, 2, 3 in order and never a value outside 1..3.
C24_AttemptCounter ==
    \A j \in Jobs :
        /\ Len(sub[j].attempts) <= MaxAttempts
        /\ \A i \in 1..Len(sub[j].attempts) : sub[j].attempts[i] = i
        /\ sub[j].pc = "fetch" => sub[j].attempt = Len(sub[j].attempts)

\* the third request of a submission is in flight
C24_Witness ==
    \E j \in Jobs : sub[j].pc = "fetch" /\ sub[j].attempts = <<1, 2, 3>>

\* C25: when the accepting submission response carried a request_id, every probe
\* issued by the poll loop started for that job sends exactly that request_id.
C25_ProbeSendsHandle ==
    [][\A j \in Jobs :
         (PollTick(j) /\ requestId = IdOfJob(j))
           => ProbePayload(j).request_id = IdOfJob(j)]_vars

\* C26: every error outcome reaches the user as a notification: a rejected
\* submission, an exhausted retry budget, a deadline expiry and a probe response
\* whose status is not "success" each emit one.
C26_ErrorsNotified ==
    [][\A j \in Jobs :
         /\ (sub[j].pc = "fetch" /\ sub'[j].pc = "done")
              => \A resp \in SubmitResponses(j) :
                   ((Rejected(resp) \/ AttemptThrows(resp)) /\ SubmitSettles(j, resp))
                     => notes'[j].failure = notes[j].failure + 1
         /\ DeadlineFires(j) => notes'[j].timeout = notes[j].timeout + 1
         /\ (poll'[j].inflight < poll[j].inflight)
              => \A resp \in ProbeResponses :
                   (Rejected(resp) /\ ProbeSettles(j, resp)) => Total(j)' = Total(j) + 1]_vars

\* C27: the tracker is in exactly one job state: never both Submitting and
\* Processing, and never Submitting or Processing while a result URL is held.
C27_OneJobState ==
    /\ ~(isAnalyzing /\ isProcessing)
    /\ (isAnalyzing \/ isProcessing) => videoUrl = None

\* the submissions whose attempt chain (backoff delays included) is in progress
InProgress == {j \in Jobs : sub[j].pc \in {"fetch", "backoff"}}

\* C28: at most one submission is in progress at any time, and the Submitting
\* flag is set exactly from the start of the first attempt until the outcome of
\* the submission is decided.
C28_OneSubmission ==
    /\ Cardinality(InProgress) <= 1
    /\ isAnalyzing <=> InProgress # {}
    /\ InProgress \subseteq {curJob}

\* a second submission is waiting to retry after the first one was decided
C28_Witness ==
    /\ curJob = 2 /\ sub[1].pc = "done" /\ sub[2].pc = "backoff"
    /\ isAnalyzing /\ isProcessing

\* C29: every submission terminates: if each network call eventually resolves or
\* fails, a submission that has been started makes at most 3 attempts and then
\* the Submitting flag is cleared, on every outcome path.
C29_SubmissionTerminates ==
    \A j \in Jobs :
        (sub[j].pc = "fetch")
          ~> (sub[j].pc = "done" /\ Len(sub[j].attempts) <= MaxAttempts /\ ~isAnalyzing)

\* both submissions are over, one on the final transport failure, one answered
C29_Witness ==
    /\ curJob = 2 /\ ~isAnalyzing
    /\ sub[1].pc = "done" /\ sub[1].fails = MaxAttempts
    /\ sub[2].pc = "done" /\ sub[2].fails = 0

\* the rule for a file that may be selected
ValidFile(file) ==
    /\ StartsWith(file.type, <<"i","m","a","g","e","/">>)
    /\ file.size <= 10 * 1024 * 1024

\* C30: a file is held as the selected image, and so can be submitted, only if
\* its MIME type starts with "image/" and its size is at most 10 MiB; selecting a
\* file that fails either check leaves the selected image and preview unchanged.
C30_OnlyValidFileSelected ==
    /\ [](selectedImage # NoFile => ValidFile(selectedImage))
    /\ [][/\ curJob' # curJob => (selectedImage # NoFile /\ ValidFile(selectedImage))
          /\ \A file \in Files :
               (handleFileSelect(file) /\ ~ValidFile(file))
                 => UNCHANGED <<selectedImage, imagePreview>>]_vars

\* a file of exactly 10 MiB is selected, previewed and submitted
C30_Witness ==
    /\ selectedImage # NoFile /\ selectedImage.size = MaxFileSize
    /\ imagePreview = DataUrl(selectedImage)
    /\ curJob = 1 /\ sub[1].pc = "fetch"

\* C31: the job coordinator component is rendered only when the session check
\* has finished (loading is false) and the user is authenticated; when loading is
\* false and the user is not authenticated the page has navigated to /auth and
\* Index renders nothing.
C31_GateBeforeCoordinator ==
    /\ (route = "/" /\ IndexRenders = "CavemanAnalyzer") => (~loading /\ isAuthenticated)
    /\ (~loading /\ ~isAuthenticated) => (route = "/auth" /\ IndexRenders = "null")
    /\ route = "/auth" => (~loading /\ ~isAuthenticated)

\* a session was established and then ended: the page has left for /auth
C31_Witness ==
    /\ route = "/auth" /\ IndexRenders = "null"
    /\ authEvents = 2 /\ ~getSessionPending

\* C32: when the page is loaded from an email link (auth hash present), a
\* no-session result of the initial getSession() call never leads to the
\* unauthenticated redirect, in any order of the getSession() resolution and the
\* listener event: it does not clear the session the listener delivered.
C32_LateGetSessionHarmless ==
    [][(hasAuthHash /\ getSessionThen(NoSession))
         => (route' = route /\ user' = user /\ session' = session)]_vars

====
